---- MODULE Spec2Model ----
(***************************************************************************)
(* Model of the order-book engine of coinbase-exchange-analyzer            *)
(* (src/src/coinbase/order_book.py, class OrderBook).                      *)
(*                                                                         *)
(* Time is an integer number of time units.  Floats are exact rationals    *)
(* [n, d] with d > 0, and NaN is the record with d = 0.  The time          *)
(* constants of the program are scaled down (the proportions the code      *)
(* relies on are kept: the forecast window is MID_PRICE_SEASONALITY_M      *)
(* forecast sample intervals, the forecast sample interval is a multiple   *)
(* of the mid-price sample interval, the aggregation windows ascend).      *)
(***************************************************************************)
EXTENDS Integers, Sequences, FiniteSets, TLC

\* ----------------------------------------------------------------------
\* Bounds of the model
\* ----------------------------------------------------------------------
\* longest list of changes of an update, and of entries of a snapshot side
MaxChanges == 2
\* number of updates after the snapshot
MaxUpdates == 3
\* number of messages of the feed whose cache files are followed
MaxMessages == 11
\* number of calls of the thread that reads the engine
MaxReaderCalls == 2

\* ----------------------------------------------------------------------
\* Program constants (order_book.py:17-20, 29; order_book_app.py:16), scaled
\* ----------------------------------------------------------------------
sample_rate_sec == 2
\* the width of the sequence number of a cache file name (6 in the source)
FILE_NAME_PREFIX_LENGTH == 1
MID_PRICE_SEASONALITY_M == 2
FORECAST_WINDOW_SEC == 8
DEFAULT_AGGREGATION_WINDOWS_SEC == <<8, 12, 16>>

\* ----------------------------------------------------------------------
\* Floats
\* ----------------------------------------------------------------------
RECURSIVE GCD(_, _)
GCD(a, b) == IF b = 0 THEN a ELSE GCD(b, a % b)

Abs(i) == IF i < 0 THEN -i ELSE i

NaN == [n |-> 0, d |-> 0]

isnan(x) == x.d = 0

\* the float with value num/den, in lowest terms
Float(num, den) ==
    IF den = 0 THEN NaN
    ELSE LET g == GCD(Abs(num), Abs(den))
             s == IF den < 0 THEN -1 ELSE 1
         IN  [n |-> s * (num \div g), d |-> s * (den \div g)]

\* float(price_level_s): the value of a decimal string
float(i) == Float(i, 1)

FAdd(x, y) == IF isnan(x) \/ isnan(y) THEN NaN ELSE Float(x.n * y.d + y.n * x.d, x.d * y.d)
FSub(x, y) == IF isnan(x) \/ isnan(y) THEN NaN ELSE Float(x.n * y.d - y.n * x.d, x.d * y.d)
FDivInt(x, k) == IF isnan(x) THEN NaN ELSE Float(x.n, x.d * k)
FAbs(x) == IF isnan(x) THEN NaN ELSE [n |-> Abs(x.n), d |-> x.d]
FNeg(x) == IF isnan(x) THEN NaN ELSE [n |-> -x.n, d |-> x.d]

\* comparisons with NaN are false
FGt(x, y) == ~isnan(x) /\ ~isnan(y) /\ x.n * y.d > y.n * x.d
FLt(x, y) == FGt(y, x)
FEq(x, y) == ~isnan(x) /\ ~isnan(y) /\ x.n * y.d = y.n * x.d

\* ----------------------------------------------------------------------
\* SortedDict: a sequence of <<key, value>> items in the order of key_fn
\* ----------------------------------------------------------------------
\* mutant: both books in ascending order of price
key_fn_ascending(side, price) == price

\* key function of the side's book: bids SortedDict(lambda x: -x), asks SortedDict()
key_fn(side, price) == IF side = "buy" THEN FNeg(price) ELSE price

contains(book, price) == \E i \in 1..Len(book) : book[i][1] = price

\* number of items whose key sorts strictly before the key of price
bisect(side, book, price) ==
    Cardinality({i \in 1..Len(book) : FLt(key_fn(side, book[i][1]), key_fn(side, price))})

\* mutant: an existing price keeps its quantity
setitem_keeps_quantity(side, book, price, quantity) ==
    IF contains(book, price) THEN book
    ELSE LET k == bisect(side, book, price)
         IN  SubSeq(book, 1, k) \o <<<<price, quantity>>>> \o SubSeq(book, k + 1, Len(book))

\* book[price] = quantity
setitem(side, book, price, quantity) ==
    IF contains(book, price)
    THEN [i \in 1..Len(book) |->
            IF book[i][1] = price THEN <<price, quantity>> ELSE book[i]]
    ELSE LET k == bisect(side, book, price)
         IN  SubSeq(book, 1, k) \o <<<<price, quantity>>>> \o SubSeq(book, k + 1, Len(book))

\* del book[price]
delitem(book, price) == SelectSeq(book, LAMBDA it : it[1] # price)

\* book.peekitem(index=0)
peekitem0(book) == book[1]

\* ----------------------------------------------------------------------
\* Order, BidAskDiff (data_model.py)
\* ----------------------------------------------------------------------
Order(price_level, quantity) == [price_level |-> price_level, quantity |-> quantity]

BidAskDiff(bid, ask, at) ==
    [highest_bid_price_level |-> bid, lowest_ask_price_level |-> ask, observed_at |-> at]

\* BidAskDiff.diff
diff(d) == FSub(d.lowest_ask_price_level, d.highest_bid_price_level)

\* ----------------------------------------------------------------------
\* Time grid and series (pandas Series with a DatetimeIndex): a sequence of
\* [ts, v] in increasing ts
\* ----------------------------------------------------------------------
Floor(t, interval) == t - (t % interval)
Ceil(t, interval) == Floor(t + interval - 1, interval)

Point(ts, v) == [ts |-> ts, v |-> v]

\* series[:t], series[t:] and series[a:b]: label slices, both ends included
SliceTo(series, t) == SelectSeq(series, LAMBDA p : p.ts <= t)
SliceFrom(series, t) == SelectSeq(series, LAMBDA p : p.ts >= t)
SliceBetween(series, a, b) == SelectSeq(series, LAMBDA p : p.ts >= a /\ p.ts <= b)

\* series.iloc[:-1] and series[1:]
DropLast(series) == IF series = <<>> THEN <<>> ELSE SubSeq(series, 1, Len(series) - 1)
DropFirst(series) == IF series = <<>> THEN <<>> ELSE SubSeq(series, 2, Len(series))

Last(series) == series[Len(series)]

RECURSIVE FSum(_)
FSum(vals) == IF vals = <<>> THEN float(0) ELSE FAdd(vals[1], FSum(Tail(vals)))

\* mutant: a NaN sample counts as a sample of value zero
mean_counts_nan(series) ==
    LET vals == [i \in 1..Len(series) |->
                    IF isnan(series[i].v) THEN float(0) ELSE series[i].v]
    IN  IF vals = <<>> THEN NaN ELSE FDivInt(FSum(vals), Len(vals))

\* Series.mean(): NaN values are skipped; NaN when nothing is left
mean(series) ==
    LET vals == SelectSeq([i \in 1..Len(series) |-> series[i].v], LAMBDA x : ~isnan(x))
    IN  IF vals = <<>> THEN NaN ELSE FDivInt(FSum(vals), Len(vals))

\* the grid ticks first, first + interval, ..., last as a sequence
Ticks(first, last, interval) ==
    IF last < first THEN <<>>
    ELSE [i \in 1..((last - first) \div interval + 1) |-> first + (i - 1) * interval]

\* mutant: the observation is kept at its own time, off the grid
resample_bfill_unaligned(t, v, interval) == <<Point(t, v)>>

\* Series([v], index=[t]).resample(interval).bfill(): the one left-closed
\* bin of t, labelled by its left edge, filled with the next observation
resample_bfill(t, v, interval) == <<Point(Floor(t, interval), v)>>

\* mutant: only the two observations are sampled, the ticks between them
\* are left out
resample_ffill_right_without_fill(h, hv, t, v, interval) ==
    <<Point(Ceil(h, interval), hv), Point(Ceil(t, interval), v)>>

\* concat([(h, hv), (t, v)]).resample(interval, closed="right").ffill():
\* every tick from the first one at or after h to the first one at or after
\* t carries the latest observation at or before it
resample_ffill_right(h, hv, t, v, interval) ==
    LET ticks == Ticks(Ceil(h, interval), Ceil(t, interval), interval)
    IN  [i \in 1..Len(ticks) |-> Point(ticks[i], IF ticks[i] >= t THEN v ELSE hv)]

\* series.resample(interval).mean(): left-closed bins labelled by their
\* left edge, from the bin of the first sample to the bin of the last one
resample_mean(series, interval) ==
    IF series = <<>> THEN <<>>
    ELSE LET ticks == Ticks(Floor(series[1].ts, interval),
                            Floor(Last(series).ts, interval), interval)
         IN  [i \in 1..Len(ticks) |->
                Point(ticks[i],
                      mean(SelectSeq(series, LAMBDA p : p.ts >= ticks[i]
                                                      /\ p.ts < ticks[i] + interval)))]

\* ----------------------------------------------------------------------
\* OrderBook: the object is a record of its fields
\* ----------------------------------------------------------------------
aggregation_windows == DEFAULT_AGGREGATION_WINDOWS_SEC
forecast_window == FORECAST_WINDOW_SEC
mid_price_sample_interval == sample_rate_sec
forecast_sample_interval == FORECAST_WINDOW_SEC \div MID_PRICE_SEASONALITY_M

\* aggregation_windows[-1]
max_window == aggregation_windows[Len(aggregation_windows)]

\* _model_update_time = None
None == -1

\* _forecast_model = None, and a fitted model: an oracle that predicts level
NoModel == [fitted |-> FALSE, level |-> NaN]
Model(level) == [fitted |-> TRUE, level |-> level]

\* _retrain_model_thread = None
NoThread == [pc |-> "none", train_data |-> <<>>]

get_book(ob, side) == IF side = "buy" THEN ob.bids ELSE ob.asks

get_first_record(ob, side) ==
    LET book == get_book(ob, side)
    IN  IF book # <<>> THEN Order(peekitem0(book)[1], peekitem0(book)[2])
        ELSE Order(NaN, NaN)

\* mutant: the bid and the ask price swapped
calc_ask_bid_diff_swapped(ob) ==
    BidAskDiff(get_first_record(ob, "sell").price_level,
               get_first_record(ob, "buy").price_level,
               ob.last_update)

calc_ask_bid_diff(ob) ==
    BidAskDiff(get_first_record(ob, "buy").price_level,
               get_first_record(ob, "sell").price_level,
               ob.last_update)

\* mutant: a zero quantity is stored (quantity >= 0)
insert_into_stores_zero(side, book, price_level, quantity) ==
    IF ~FLt(quantity, float(0)) THEN setitem(side, book, price_level, quantity)
    ELSE IF contains(book, price_level) THEN delitem(book, price_level)
    ELSE book

\* the book of the side after __insert_record
insert_into(side, book, price_level, quantity) ==
    IF FGt(quantity, float(0)) THEN setitem(side, book, price_level, quantity)
    ELSE IF contains(book, price_level) THEN delitem(book, price_level)
    ELSE book

insert_record(ob, side, price_level, quantity) ==
    IF side = "buy"
    THEN [ob EXCEPT !.bids = insert_into(side, ob.bids, price_level, quantity)]
    ELSE [ob EXCEPT !.asks = insert_into(side, ob.asks, price_level, quantity)]

\* for side, price_level_s, quantity_s in changes: __insert_record(...)
RECURSIVE insert_changes(_, _)
insert_changes(ob, changes) ==
    IF changes = <<>> THEN ob
    ELSE insert_changes(
            insert_record(ob, changes[1][1], float(changes[1][2]), float(changes[1][3])),
            Tail(changes))

\* the two loops of the constructor over snapshot['bids'] and snapshot['asks']
RECURSIVE insert_side(_, _, _)
insert_side(ob, side, entries) ==
    IF entries = <<>> THEN ob
    ELSE insert_side(insert_record(ob, side, float(entries[1][1]), float(entries[1][2])),
                     side, Tail(entries))

\* mutant: the samples at or after the time of the update are kept
update_mid_prices_keeps_later(ob, current_diff) ==
    LET mid_price == FDivInt(FAdd(current_diff.highest_bid_price_level,
                                  current_diff.lowest_ask_price_level), 2)
        historical_mid_prices ==
            IF ob.mid_prices # <<>> /\ Last(ob.mid_prices).ts # current_diff.observed_at
            THEN ob.mid_prices ELSE DropLast(ob.mid_prices)
        new_mid_prices ==
            IF historical_mid_prices = <<>>
            THEN resample_bfill(current_diff.observed_at, mid_price,
                                mid_price_sample_interval)
            ELSE historical_mid_prices \o
                 DropFirst(resample_ffill_right(
                    Last(historical_mid_prices).ts, Last(historical_mid_prices).v,
                    current_diff.observed_at, mid_price, mid_price_sample_interval))
    IN  [ob EXCEPT !.mid_prices = new_mid_prices]

update_mid_prices(ob, current_diff) ==
    LET mid_price == FDivInt(FAdd(current_diff.highest_bid_price_level,
                                  current_diff.lowest_ask_price_level), 2)
        upto == SliceTo(ob.mid_prices, ob.last_update)
        historical_mid_prices ==
            IF upto # <<>> /\ Last(upto).ts # current_diff.observed_at
            THEN upto ELSE DropLast(upto)
        new_mid_prices ==
            IF historical_mid_prices = <<>>
            THEN resample_bfill(current_diff.observed_at, mid_price,
                                mid_price_sample_interval)
            ELSE historical_mid_prices \o
                 DropFirst(resample_ffill_right(
                    Last(historical_mid_prices).ts, Last(historical_mid_prices).v,
                    current_diff.observed_at, mid_price, mid_price_sample_interval))
    IN  [ob EXCEPT !.mid_prices = new_mid_prices]

\* ----------------------------------------------------------------------
\* The forecast DataFrame: a sequence of rows in increasing ts
\* ----------------------------------------------------------------------
Row(ts, mid_price, forecast_mid_price, forecast_error, used_in_training) ==
    [ts |-> ts, mid_price |-> mid_price, forecast_mid_price |-> forecast_mid_price,
     forecast_error |-> forecast_error, used_in_training |-> used_in_training]

Index(frame) == {frame[i].ts : i \in 1..Len(frame)}

RECURSIVE SortedTicks(_)
SortedTicks(S) ==
    IF S = {} THEN <<>>
    ELSE LET m == CHOOSE x \in S : \A y \in S : x <= y
         IN  <<m>> \o SortedTicks(S \ {m})

RowAt(frame, ts) == frame[CHOOSE i \in 1..Len(frame) : frame[i].ts = ts]

\* frame.join(series, how="outer", sort=True): the rows of both indexes in
\* order; a row the frame did not have is NaN in every column of the frame
join_outer(frame, index) ==
    LET ticks == SortedTicks(Index(frame) \cup index)
    IN  [i \in 1..Len(ticks) |->
            IF ticks[i] \in Index(frame) THEN RowAt(frame, ticks[i])
            ELSE Row(ticks[i], NaN, NaN, NaN, "nan")]

ValueAt(series, ts) == series[CHOOSE i \in 1..Len(series) : series[i].ts = ts].v

\* the increment_series of __update_forecast_with_train_data
train_increment(ob) ==
    IF ob.forecast = <<>>
    THEN LET resampled_mid_prices == resample_mean(ob.mid_prices, forecast_sample_interval)
         IN  IF Len(resampled_mid_prices) > 1 THEN DropLast(resampled_mid_prices) ELSE <<>>
    ELSE LET next_forecast_interval_start == ob.model_update_time + forecast_sample_interval
             next_forecast_interval_end ==
                next_forecast_interval_start + forecast_sample_interval
         IN  IF Len(SliceFrom(ob.mid_prices, next_forecast_interval_end)) > 0
             THEN DropLast(resample_mean(
                    SliceBetween(ob.mid_prices, next_forecast_interval_start,
                                 next_forecast_interval_end),
                    forecast_sample_interval))
             ELSE <<>>

update_forecast_with_train_data(ob, increment_series) ==
    LET new_forecast == join_outer(ob.forecast, Index(increment_series))
    IN  [ob EXCEPT !.forecast =
            [i \in 1..Len(new_forecast) |->
                IF new_forecast[i].ts \in Index(increment_series)
                THEN [new_forecast[i] EXCEPT
                        !.mid_price = ValueAt(increment_series, new_forecast[i].ts),
                        !.used_in_training = "False"]
                ELSE new_forecast[i]]]

\* self._forecast[self._forecast["used_in_training"] == False]
not_used_in_training(frame) == SelectSeq(frame, LAMBDA r : r.used_in_training = "False")

\* self._forecast.loc[not_used_in_training_filter, "used_in_training"] = True
mark_used_in_training(frame) ==
    [i \in 1..Len(frame) |->
        IF frame[i].used_in_training = "False"
        THEN [frame[i] EXCEPT !.used_in_training = "True"] ELSE frame[i]]

\* mutant: __update_model does not look at the retrain lock
model_update_runs_ignores_lock(ob) == ob.forecast # <<>>

\* the guard of __update_model
model_update_runs(ob) == ~ob.model_retrain_lock /\ ob.forecast # <<>>

\* mutant: the refit is started above the threshold only (>)
update_model_before_fit_call_above_threshold(ob) ==
    IF ~model_update_runs(ob) THEN ob
    ELSE IF ob.n_model_updates > ob.n_observation_to_retrain_after
    THEN [ob EXCEPT !.model_retrain_lock = TRUE,
                    !.retrain_model_thread = [pc |-> "started", train_data |-> <<>>]]
    ELSE LET new_training_data == not_used_in_training(ob.forecast)
         IN  IF new_training_data # <<>>
             THEN [ob EXCEPT !.model_update_time = Last(new_training_data).ts,
                             !.n_model_updates = @ + Len(new_training_data)]
             ELSE ob

\* __update_model up to the call of self._forecast_model.update
update_model_before_fit_call(ob) ==
    IF ~model_update_runs(ob) THEN ob
    ELSE IF ob.n_model_updates >= ob.n_observation_to_retrain_after
    THEN [ob EXCEPT !.model_retrain_lock = TRUE,
                    !.retrain_model_thread = [pc |-> "started", train_data |-> <<>>]]
    ELSE LET new_training_data == not_used_in_training(ob.forecast)
         IN  IF new_training_data # <<>>
             THEN [ob EXCEPT !.model_update_time = Last(new_training_data).ts,
                             !.n_model_updates = @ + Len(new_training_data)]
             ELSE ob

\* __update_model calls self._forecast_model.update
calls_model_update(ob) ==
    /\ model_update_runs(ob)
    /\ ob.n_model_updates < ob.n_observation_to_retrain_after
    /\ not_used_in_training(ob.forecast) # <<>>
    /\ ob.forecast_model.fitted

update_model(ob) ==
    IF ~model_update_runs(ob) THEN ob
    ELSE [update_model_before_fit_call(ob) EXCEPT
            !.forecast = mark_used_in_training(ob.forecast)]

\* date_range(model_update_time, model_update_time + forecast_window,
\*            freq=forecast_sample_interval)[1:]
new_predictions_index(ob) ==
    {t \in (ob.model_update_time + 1)..(ob.model_update_time + forecast_window) :
        (t - ob.model_update_time) % forecast_sample_interval = 0}

calculate_forecast(ob, new_intervals) ==
    IF ~ob.forecast_model.fitted THEN ob
    ELSE LET predictions == new_predictions_index(ob)
             new_forecast == join_outer(ob.forecast, predictions)
             with_predictions ==
                [i \in 1..Len(new_forecast) |->
                    IF new_forecast[i].ts \in predictions
                    THEN [new_forecast[i] EXCEPT
                            !.forecast_mid_price = ob.forecast_model.level]
                    ELSE new_forecast[i]]
         IN  [ob EXCEPT !.forecast =
                [i \in 1..Len(with_predictions) |->
                    IF with_predictions[i].ts \in new_intervals
                    THEN [with_predictions[i] EXCEPT
                            !.forecast_error =
                                FAbs(FSub(with_predictions[i].forecast_mid_price,
                                          with_predictions[i].mid_price))]
                    ELSE with_predictions[i]]]

free_resources(ob) ==
    [ob EXCEPT
        !.mid_prices =
            IF ob.mid_prices # <<>>
            THEN SliceFrom(ob.mid_prices,
                           ob.last_update - max_window - mid_price_sample_interval)
            ELSE ob.mid_prices,
        !.forecast =
            IF ob.forecast # <<>>
            THEN SliceFrom(ob.forecast,
                           ob.last_update - max_window - forecast_sample_interval)
            ELSE ob.forecast]

\* __update_data_structures; its return value is calc_ask_bid_diff(ob)
update_data_structures(ob) ==
    LET with_mid_prices == update_mid_prices(ob, calc_ask_bid_diff(ob))
        train_increment_series == train_increment(with_mid_prices)
        with_train_data ==
            update_forecast_with_train_data(with_mid_prices, train_increment_series)
    IN  free_resources(
            calculate_forecast(update_model(with_train_data),
                               Index(train_increment_series)))

\* OrderBook.__init__(snapshot)
OrderBook(snapshot) ==
    LET fields ==
            [last_update |-> snapshot.time,
             bids |-> <<>>,
             asks |-> <<>>,
             mid_prices |-> <<>>,
             forecast |-> <<>>,
             n_observation_to_retrain_after |-> MID_PRICE_SEASONALITY_M * 2 + 1,
             n_model_updates |-> 0,
             model_retrain_lock |-> FALSE,
             model_update_time |-> None,
             retrain_model_thread |-> NoThread,
             forecast_model |-> NoModel,
             max_ask_bid_diff |-> BidAskDiff(NaN, NaN, snapshot.time)]
        \* the loop over one side writes the book of that side only
        with_books ==
            [fields EXCEPT
                !.bids = insert_side(fields, "buy", snapshot.bids).bids,
                !.asks = insert_side(fields, "sell", snapshot.asks).asks]
    IN  [update_data_structures(with_books) EXCEPT
            !.max_ask_bid_diff = calc_ask_bid_diff(with_books)]

\* OrderBook.update up to the call of __update_data_structures
update_books(ob, u) ==
    insert_changes([ob EXCEPT !.last_update = u.time], u.changes)

\* a text that float() does not accept and a text that strptime() does not
\* accept, written as numbers that no price, quantity or time takes
NotANumber == -9
NotATime == -9

\* float(s) raises ValueError
float_raises(s) == s = NotANumber

\* __parse_request_time(request_time) raises ValueError
parse_request_time_raises(request_time) == request_time = NotATime

\* the loop of update evaluates float(price_level_s), float(quantity_s)
\* before it calls __insert_record
change_raises(change) == float_raises(change[2]) \/ float_raises(change[3])

\* the changes the loop of update has inserted when it ends or raises
RECURSIVE changes_inserted(_)
changes_inserted(changes) ==
    IF changes = <<>> \/ change_raises(changes[1]) THEN <<>>
    ELSE <<changes[1]>> \o changes_inserted(Tail(changes))

\* OrderBook.update raises ValueError before __update_data_structures
update_raises_parsing(u) ==
    \/ parse_request_time_raises(u.time)
    \/ \E i \in 1..Len(u.changes) : change_raises(u.changes[i])

\* the engine when OrderBook.update raises ValueError
update_until_parse_failure(ob, u) ==
    IF parse_request_time_raises(u.time) THEN ob
    ELSE insert_changes([ob EXCEPT !.last_update = u.time], changes_inserted(u.changes))

\* mutant: the latest spread always replaces the recorded one
new_max_ask_bid_diff_latest(old, new_order_diff) == new_order_diff

\* mutant: a spread equal to the recorded one replaces it (>=)
new_max_ask_bid_diff_on_tie(old, new_order_diff) ==
    IF ~FLt(diff(new_order_diff), diff(old)) \/ isnan(diff(old))
    THEN new_order_diff ELSE old

\* self._max_ask_bid_diff = new_order_diff if ... else self._max_ask_bid_diff
new_max_ask_bid_diff(old, new_order_diff) ==
    IF FGt(diff(new_order_diff), diff(old)) \/ isnan(diff(old))
    THEN new_order_diff ELSE old

\* OrderBook.update from the call of __update_data_structures on
update_after_books(with_books) ==
    [update_data_structures(with_books) EXCEPT
        !.max_ask_bid_diff =
            new_max_ask_bid_diff(with_books.max_ask_bid_diff, calc_ask_bid_diff(with_books))]

\* OrderBook.update(update), returning normally
update(ob, u) == update_after_books(update_books(ob, u))

\* the engine at the call of self._forecast_model.update in __update_model
at_model_update_call(ob, u) ==
    LET with_mid_prices ==
            update_mid_prices(update_books(ob, u), calc_ask_bid_diff(update_books(ob, u)))
    IN  update_forecast_with_train_data(with_mid_prices, train_increment(with_mid_prices))

\* the engine at the call of self._forecast_model.predict in __calculate_forecast
at_predict_call(ob, u) == update_model(at_model_update_call(ob, u))

\* mutant: the book itself is returned, not a copy of it
copy_returns_self(book) == [is_engine_book |-> TRUE, items |-> <<>>]

\* SortedDict.copy(): a new object that holds the items of the book
copy(book) == [is_engine_book |-> FALSE, items |-> book]

\* the items of a book object, given the engine's book of its side
items_of(object, engine_book) ==
    IF object.is_engine_book THEN engine_book ELSE object.items

take_snapshot(ob) == <<copy(ob.bids), copy(ob.asks)>>

forecast_mid_price(ob) ==
    IF ob.forecast # <<>> THEN Last(ob.forecast).forecast_mid_price ELSE NaN

\* __calculate_window_means of get_stats
calculate_window_means(series, end_time) ==
    [i \in 1..Len(aggregation_windows) |->
        mean(SliceFrom(series, end_time - aggregation_windows[i]))]

\* get_stats raises IndexError on an empty index[-1]
get_stats_raises(ob) ==
    \/ ob.mid_prices = <<>>
    \/ ob.forecast # <<>> /\ SliceTo(ob.forecast, Last(ob.mid_prices).ts) = <<>>

get_stats(ob) ==
    LET last_update_time_aligned == Last(ob.mid_prices).ts
        forecast_with_known_mid_prices == SliceTo(ob.forecast, last_update_time_aligned)
        forecast_error_means ==
            IF ob.forecast = <<>>
            THEN [i \in 1..Len(aggregation_windows) |-> NaN]
            ELSE calculate_window_means(
                    [i \in 1..Len(forecast_with_known_mid_prices) |->
                        Point(forecast_with_known_mid_prices[i].ts,
                              forecast_with_known_mid_prices[i].forecast_error)],
                    Last(forecast_with_known_mid_prices).ts)
    IN  [current_highest_bid |-> get_first_record(ob, "buy"),
         current_lowest_ask |-> get_first_record(ob, "sell"),
         max_ask_bid_diff |-> ob.max_ask_bid_diff,
         forecasted_mid_price |-> forecast_mid_price(ob),
         mid_prices |-> calculate_window_means(ob.mid_prices, last_update_time_aligned),
         forecast_errors |-> forecast_error_means]

\* ----------------------------------------------------------------------
\* The retrain worker (threading.Thread of __update_model, __retrain_model)
\* ----------------------------------------------------------------------
\* the argument of __retrain_model, evaluated by the worker:
\* self._forecast.loc[:self._model_update_time, "mid_price"].copy()
retrain_argument(ob) ==
    LET rows == SliceTo(ob.forecast, ob.model_update_time)
    IN  [i \in 1..Len(rows) |-> Point(rows[i].ts, rows[i].mid_price)]

\* the levels a fitted model may predict (auto_arima is an oracle)
ModelLevels == {float(1), float(2)}

\* ----------------------------------------------------------------------
\* Messages of the feed
\* ----------------------------------------------------------------------
Sides == {"buy", "sell"}
Prices == {1, 2}
Quantities == {-1, 0, 1}
SnapshotQuantities == {0, 1, 2}

Changes == Sides \X Prices \X Quantities
ChangeLists == UNION {[1..k -> Changes] : k \in 0..MaxChanges}

Entries == Prices \X SnapshotQuantities
EntryLists == UNION {[1..k -> Entries] : k \in 0..MaxChanges}

Message(type, time, bids, asks, changes) ==
    [type |-> type, time |-> time, bids |-> bids, asks |-> asks, changes |-> changes]

Snapshot(time, bids, asks) == Message("snapshot", time, bids, asks, <<>>)
L2Update(time, changes) == Message("l2update", time, <<>>, <<>>, changes)

\* no message received yet, or the websocket is waiting for the next one
NoMsg == Message("none", 0, <<>>, <<>>, <<>>)

\* OrderBookApp.order_book = None
NoOrderBook ==
    [last_update |-> None,
     bids |-> <<>>,
     asks |-> <<>>,
     mid_prices |-> <<>>,
     forecast |-> <<>>,
     n_observation_to_retrain_after |-> 0,
     n_model_updates |-> 0,
     model_retrain_lock |-> FALSE,
     model_update_time |-> None,
     retrain_model_thread |-> NoThread,
     forecast_model |-> NoModel,
     max_ask_bid_diff |-> BidAskDiff(NaN, NaN, None)]

\* ----------------------------------------------------------------------
\* The cache files of OrderBookApp (cache_dir is configured)
\* ----------------------------------------------------------------------
\* the code points of the characters of a file name
Ord == [zero |-> 48, underscore |-> 95]

\* the characters of the message types and of the product id
Chars ==
    [snapshot |-> <<115, 110, 97, 112, 115, 104, 111, 116>>,
     l2update |-> <<108, 50, 117, 112, 100, 97, 116, 101>>,
     subscriptions |-> <<115, 117, 98, 115, 99, 114, 105, 112, 116, 105, 111, 110, 115>>,
     heartbeat |-> <<104, 101, 97, 114, 116, 98, 101, 97, 116>>,
     product_id |-> <<66, 84, 67, 45, 85, 83, 68>>,
     json |-> <<46, 106, 115, 111, 110>>]

\* the decimal digits of n, as characters
RECURSIVE Digits(_)
Digits(n) ==
    IF n < 10 THEN <<Ord.zero + n>>
    ELSE Append(Digits(n \div 10), Ord.zero + (n % 10))

\* f"{n:0{width}d}": zeros on the left up to width, never a digit cut
RECURSIVE ZeroPadded(_, _)
ZeroPadded(digits, width) ==
    IF Len(digits) >= width THEN digits
    ELSE ZeroPadded(<<Ord.zero>> \o digits, width)

\* mutant: the file name without the sequence number
cache_file_name_unnumbered(n, message_type) ==
    <<Ord.underscore>> \o Chars.product_id \o <<Ord.underscore>>
        \o Chars[message_type] \o Chars.json

\* f"{self.__messages_processed:0{FILE_NAME_PREFIX_LENGTH}d}_{self.product_id}_{message_type}.json"
cache_file_name(n, message_type) ==
    ZeroPadded(Digits(n), FILE_NAME_PREFIX_LENGTH) \o <<Ord.underscore>>
        \o Chars.product_id \o <<Ord.underscore>> \o Chars[message_type] \o Chars.json

\* the order of str: a < b
StrLess(a, b) ==
    \E k \in 1..Len(b) :
        /\ k <= Len(a) + 1
        /\ \A i \in 1..(k - 1) : a[i] = b[i]
        /\ k = Len(a) + 1 \/ a[k] < b[k]

VARIABLES
    ob,         \* OrderBookApp.order_book, the OrderBook object
    msg,        \* the message of the current or of the last __on_message call
    pending,    \* TRUE while msg has been received and is not yet handled
    n_updates,  \* number of l2update messages handled so far
    outcome,    \* how the last __on_message call ended: "returned" or "raised"
    cache,      \* the names of the cache files, in the order they were written
    messages_processed, \* OrderBookApp.__messages_processed
    reader,     \* what the thread that calls get_stats / take_snapshot holds
    in_update,  \* TRUE while update() has written the books and nothing else
    replaced,   \* the OrderBook object that the last snapshot replaced
    teardown    \* where the main thread is in the teardown, and the time since it began

vars == <<ob, msg, pending, n_updates, outcome, cache, messages_processed, reader, in_update,
          replaced, teardown>>

\* no get_stats / take_snapshot call made yet
NoReader == [books |-> <<>>, stats |-> <<>>, raised |-> FALSE, calls |-> 0]

\* __on_message writes the message to its cache file before it handles the
\* message, and counts the message in its finally block
WriteCache ==
    /\ cache' = Append(cache, cache_file_name(messages_processed, msg.type))
    /\ messages_processed' = messages_processed + 1

\* OrderBookApp.__init__
AppInit ==
    /\ ob = NoOrderBook
    /\ msg = NoMsg
    /\ pending = FALSE
    /\ n_updates = 0
    /\ outcome = "none"
    /\ cache = <<>>
    /\ messages_processed = 0
    /\ reader = NoReader
    /\ in_update = FALSE
    /\ replaced = NoOrderBook
    /\ teardown = [pc |-> "running", elapsed |-> 0]

\* the websocket is waiting for a message: no __on_message call is running
Receiving == ~pending /\ msg = NoMsg

\* the websocket receives message m and calls __on_message
Deliver(m) ==
    /\ Receiving
    /\ teardown.pc = "running"
    /\ msg' = m
    /\ pending' = TRUE
    /\ UNCHANGED <<ob, n_updates, outcome, cache, messages_processed, reader, in_update, replaced, teardown>>

\* the websocket loop (run_forever) waits for the next message
NextMessage ==
    /\ ~pending
    /\ msg # NoMsg
    /\ msg' = NoMsg
    /\ UNCHANGED <<ob, pending, n_updates, outcome, cache, messages_processed, reader, in_update, replaced, teardown>>

\* __on_message for a snapshot
OnSnapshot ==
    /\ pending
    /\ msg.type = "snapshot"
    /\ ob' = OrderBook(msg)
    /\ replaced' = ob
    /\ pending' = FALSE
    /\ outcome' = "returned"
    /\ WriteCache
    /\ UNCHANGED <<msg, n_updates, reader, in_update, teardown>>

\* __on_message for an l2update: OrderBook.update returns
OnUpdate ==
    /\ pending
    /\ msg.type = "l2update"
    /\ ob # NoOrderBook
    /\ ~update_raises_parsing(msg)
    /\ ob' = update(ob, msg)
    /\ pending' = FALSE
    /\ n_updates' = n_updates + 1
    /\ outcome' = "returned"
    /\ WriteCache
    /\ UNCHANGED <<msg, reader, in_update, replaced, teardown>>

\* __on_message for an l2update: self._forecast_model.update raises
OnUpdateModelUpdateRaises ==
    /\ pending
    /\ msg.type = "l2update"
    /\ ob # NoOrderBook
    /\ ~update_raises_parsing(msg)
    /\ calls_model_update(at_model_update_call(ob, msg))
    /\ ob' = update_model_before_fit_call(at_model_update_call(ob, msg))
    /\ pending' = FALSE
    /\ n_updates' = n_updates + 1
    /\ outcome' = "raised"
    /\ WriteCache
    /\ UNCHANGED <<msg, reader, in_update, replaced, teardown>>

\* __on_message for an l2update: self._forecast_model.predict raises
OnUpdatePredictRaises ==
    /\ pending
    /\ msg.type = "l2update"
    /\ ob # NoOrderBook
    /\ ~update_raises_parsing(msg)
    /\ at_predict_call(ob, msg).forecast_model.fitted
    /\ ob' = at_predict_call(ob, msg)
    /\ pending' = FALSE
    /\ n_updates' = n_updates + 1
    /\ outcome' = "raised"
    /\ WriteCache
    /\ UNCHANGED <<msg, reader, in_update, replaced, teardown>>

\* __on_message for an l2update: the time or a change does not parse and
\* OrderBook.update raises ValueError
OnUpdateParseRaises ==
    /\ pending
    /\ msg.type = "l2update"
    /\ ob # NoOrderBook
    /\ update_raises_parsing(msg)
    /\ ob' = update_until_parse_failure(ob, msg)
    /\ pending' = FALSE
    /\ n_updates' = n_updates + 1
    /\ outcome' = "raised"
    /\ WriteCache
    /\ UNCHANGED <<msg, reader, in_update, replaced, teardown>>

\* __on_message for an l2update that arrives before any snapshot:
\* self.order_book is None and self.order_book.update raises AttributeError
OnUpdateNoOrderBook ==
    /\ pending
    /\ msg.type = "l2update"
    /\ ob = NoOrderBook
    /\ pending' = FALSE
    /\ outcome' = "raised"
    /\ WriteCache
    /\ UNCHANGED <<ob, msg, n_updates, reader, in_update, replaced, teardown>>

\* __on_message for the subscriptions message
OnSubscriptions ==
    /\ pending
    /\ msg.type = "subscriptions"
    /\ pending' = FALSE
    /\ outcome' = "returned"
    /\ WriteCache
    /\ UNCHANGED <<ob, msg, n_updates, reader, in_update, replaced, teardown>>

\* __on_message for a message of any other type: a warning is logged
OnUnexpected ==
    /\ pending
    /\ msg.type \notin {"snapshot", "l2update", "subscriptions"}
    /\ pending' = FALSE
    /\ outcome' = "returned"
    /\ WriteCache
    /\ UNCHANGED <<ob, msg, n_updates, reader, in_update, replaced, teardown>>

\* The worker's steps are taken between two messages: a step of the worker
\* and the arrival of a message commute.
WorkerMayStep == Receiving

\* the worker evaluates the argument of __retrain_model
RetrainStart ==
    /\ WorkerMayStep
    /\ ob.retrain_model_thread.pc = "started"
    /\ ob' = [ob EXCEPT !.retrain_model_thread =
                [pc |-> "auto_arima", train_data |-> retrain_argument(ob)]]
    /\ UNCHANGED <<msg, pending, n_updates, outcome, cache, messages_processed, reader, in_update, replaced, teardown>>

\* auto_arima returns a model
RetrainFitted ==
    /\ WorkerMayStep
    /\ ob.retrain_model_thread.pc = "auto_arima"
    /\ ob.retrain_model_thread.train_data # <<>>
    /\ \E level \in ModelLevels :
        ob' = [ob EXCEPT !.forecast_model = Model(level),
                         !.n_model_updates = 0,
                         !.retrain_model_thread.pc = "finally"]
    /\ UNCHANGED <<msg, pending, n_updates, outcome, cache, messages_processed, reader, in_update, replaced, teardown>>

\* auto_arima raises
RetrainFailed ==
    /\ WorkerMayStep
    /\ ob.retrain_model_thread.pc = "auto_arima"
    /\ ob' = [ob EXCEPT !.n_observation_to_retrain_after = @ + MID_PRICE_SEASONALITY_M,
                        !.retrain_model_thread.pc = "finally"]
    /\ UNCHANGED <<msg, pending, n_updates, outcome, cache, messages_processed, reader, in_update, replaced, teardown>>

\* the finally block of __retrain_model; train_data.index[-1] raises
\* IndexError on empty train_data, and the lock is then never released
RetrainFinally ==
    /\ WorkerMayStep
    /\ ob.retrain_model_thread.pc = "finally"
    /\ ob' = IF ob.retrain_model_thread.train_data = <<>>
             THEN [ob EXCEPT !.retrain_model_thread.pc = "died"]
             ELSE [ob EXCEPT !.model_update_time = Last(ob.retrain_model_thread.train_data).ts,
                             !.model_retrain_lock = FALSE,
                             !.retrain_model_thread.pc = "finished"]
    /\ UNCHANGED <<msg, pending, n_updates, outcome, cache, messages_processed, reader, in_update, replaced, teardown>>

\* The worker of a replaced OrderBook object keeps running: the lambda of
\* its thread and __retrain_model hold the self of that object.
\* the replaced worker evaluates the argument of __retrain_model
ReplacedRetrainStart ==
    /\ WorkerMayStep
    /\ replaced.retrain_model_thread.pc = "started"
    /\ replaced' = [replaced EXCEPT !.retrain_model_thread =
                [pc |-> "auto_arima", train_data |-> retrain_argument(replaced)]]
    /\ UNCHANGED <<ob, msg, pending, n_updates, outcome, cache, messages_processed, reader, in_update, teardown>>

\* mutant: the worker writes the model to the engine the adapter holds
ReplacedRetrainFitted_into_current ==
    /\ WorkerMayStep
    /\ replaced.retrain_model_thread.pc = "auto_arima"
    /\ replaced.retrain_model_thread.train_data # <<>>
    /\ \E level \in ModelLevels :
        ob' = [ob EXCEPT !.forecast_model = Model(level),
                         !.n_model_updates = 0]
    /\ replaced' = [replaced EXCEPT !.retrain_model_thread.pc = "finally"]
    /\ UNCHANGED <<msg, pending, n_updates, outcome, cache, messages_processed, reader, in_update, teardown>>

\* auto_arima of the replaced worker returns a model
ReplacedRetrainFitted ==
    /\ WorkerMayStep
    /\ replaced.retrain_model_thread.pc = "auto_arima"
    /\ replaced.retrain_model_thread.train_data # <<>>
    /\ \E level \in ModelLevels :
        replaced' = [replaced EXCEPT !.forecast_model = Model(level),
                                     !.n_model_updates = 0,
                                     !.retrain_model_thread.pc = "finally"]
    /\ UNCHANGED <<ob, msg, pending, n_updates, outcome, cache, messages_processed, reader, in_update, teardown>>

\* auto_arima of the replaced worker raises
ReplacedRetrainFailed ==
    /\ WorkerMayStep
    /\ replaced.retrain_model_thread.pc = "auto_arima"
    /\ replaced' = [replaced EXCEPT !.n_observation_to_retrain_after = @ + MID_PRICE_SEASONALITY_M,
                                    !.retrain_model_thread.pc = "finally"]
    /\ UNCHANGED <<ob, msg, pending, n_updates, outcome, cache, messages_processed, reader, in_update, teardown>>

\* the finally block of __retrain_model of the replaced worker
ReplacedRetrainFinally ==
    /\ WorkerMayStep
    /\ replaced.retrain_model_thread.pc = "finally"
    /\ replaced' = IF replaced.retrain_model_thread.train_data = <<>>
             THEN [replaced EXCEPT !.retrain_model_thread.pc = "died"]
             ELSE [replaced EXCEPT !.model_update_time = Last(replaced.retrain_model_thread.train_data).ts,
                             !.model_retrain_lock = FALSE,
                             !.retrain_model_thread.pc = "finished"]
    /\ UNCHANGED <<ob, msg, pending, n_updates, outcome, cache, messages_processed, reader, in_update, teardown>>

\* ----------------------------------------------------------------------
\* Teardown: OrderBookApp.__exit__, OrderBook.__exit__ and the end of the
\* process, with the time since the teardown began in units of one second
\* ----------------------------------------------------------------------
\* the join timeout of OrderBook.__exit__: a few seconds
THREADS_JOIN_TIMEOUT == 2

\* Thread.is_alive() of the retrain worker
is_alive(thread) == thread.pc \in {"started", "auto_arima", "finally"}

\* OrderBookApp.__exit__: the websocket is closed and its thread, which is
\* between two messages, is joined
AppExit ==
    /\ teardown.pc = "running"
    /\ Receiving
    /\ teardown' = [teardown EXCEPT !.pc = "exit"]
    /\ UNCHANGED <<ob, msg, pending, n_updates, outcome, cache, messages_processed, reader, in_update,
                   replaced>>

\* OrderBook.__exit__ is called: it returns at once without a worker and
\* joins the worker otherwise
EngineExit ==
    /\ teardown.pc = "exit"
    /\ ob # NoOrderBook
    /\ teardown' = [teardown EXCEPT
            !.pc = IF ob.retrain_model_thread = NoThread THEN "shutdown" ELSE "join"]
    /\ UNCHANGED <<ob, msg, pending, n_updates, outcome, cache, messages_processed, reader, in_update,
                   replaced>>

\* self._retrain_model_thread.join(THREADS_JOIN_TIMEOUT) returns: the worker
\* has ended or the timeout has elapsed
JoinReturns ==
    /\ teardown.pc = "join"
    /\ ~is_alive(ob.retrain_model_thread) \/ teardown.elapsed >= THREADS_JOIN_TIMEOUT
    /\ teardown' = [teardown EXCEPT !.pc = "shutdown"]
    /\ UNCHANGED <<ob, msg, pending, n_updates, outcome, cache, messages_processed, reader, in_update,
                   replaced>>

\* OrderBookApp.__exit__ does not call OrderBook.__exit__: the main thread
\* goes on to the end of the program
MainThreadEnds ==
    /\ teardown.pc = "exit"
    /\ teardown' = [teardown EXCEPT !.pc = "shutdown"]
    /\ UNCHANGED <<ob, msg, pending, n_updates, outcome, cache, messages_processed, reader, in_update,
                   replaced>>

\* the interpreter ends the process once no thread that is not a daemon is
\* alive; the worker is created without daemon=True
ProcessExits ==
    /\ teardown.pc = "shutdown"
    /\ ~is_alive(ob.retrain_model_thread)
    /\ teardown' = [teardown EXCEPT !.pc = "terminated"]
    /\ UNCHANGED <<ob, msg, pending, n_updates, outcome, cache, messages_processed, reader, in_update,
                   replaced>>

\* one second passes while the main thread is blocked in the join or at
\* the end of the program; the time is not counted beyond the timeout + 1
Tick ==
    /\ is_alive(ob.retrain_model_thread)
    /\ \/ teardown.pc = "join" /\ teardown.elapsed < THREADS_JOIN_TIMEOUT
       \/ teardown.pc = "shutdown" /\ teardown.elapsed <= THREADS_JOIN_TIMEOUT
    /\ teardown' = [teardown EXCEPT !.elapsed = @ + 1]
    /\ UNCHANGED <<ob, msg, pending, n_updates, outcome, cache, messages_processed, reader, in_update,
                   replaced>>

\* ----------------------------------------------------------------------
\* Specification of the books: every snapshot, then the update that
\* follows it with every list of changes
\* ----------------------------------------------------------------------
\* the time of the snapshot and the time of the update that follows it
BookTimes == [snapshot |-> 5, l2update |-> 6]

DeliverBookSnapshot ==
    /\ Receiving
    /\ ob = NoOrderBook
    /\ \E bids \in EntryLists, asks \in EntryLists :
        Deliver(Snapshot(BookTimes.snapshot, bids, asks))

DeliverBookUpdate ==
    /\ Receiving
    /\ ob # NoOrderBook
    /\ n_updates = 0
    /\ \E changes \in ChangeLists : Deliver(L2Update(BookTimes.l2update, changes))

NextBook ==
    \/ DeliverBookSnapshot
    \/ OnSnapshot
    \/ NextMessage
    \/ DeliverBookUpdate
    \/ OnUpdate

SpecBook == AppInit /\ [][NextBook]_vars

\* ----------------------------------------------------------------------
\* Specification of the engine over time: a few books, updates on and off
\* the sample grid, late updates and long gaps, the retrain worker and a
\* forecaster whose update and predict may raise
\* ----------------------------------------------------------------------
SnapshotTimes == {4, 5}
SnapshotBids == {<<>>, <<<<1, 1>>>>, <<<<1, 1>>, <<2, 1>>>>}
SnapshotAsks == {<<<<2, 1>>>>}

\* the time of an update minus the time of the message before it
Gaps == {-6, 1, 4, 20}

\* no change, or the bid level 2 added if absent and removed if present
SeriesChanges ==
    {<<>>, <<<<"buy", 2, IF contains(ob.bids, float(2)) THEN 0 ELSE 1>>>>}

DeliverSnapshot ==
    /\ Receiving
    /\ ob = NoOrderBook
    /\ \E time \in SnapshotTimes, bids \in SnapshotBids, asks \in SnapshotAsks :
        Deliver(Snapshot(time, bids, asks))

DeliverUpdate ==
    /\ Receiving
    /\ ob # NoOrderBook
    /\ n_updates < MaxUpdates
    /\ \E gap \in Gaps, changes \in SeriesChanges :
        /\ ob.last_update + gap >= 0
        /\ Deliver(L2Update(ob.last_update + gap, changes))

Next ==
    \/ DeliverSnapshot
    \/ OnSnapshot
    \/ NextMessage
    \/ DeliverUpdate
    \/ OnUpdate
    \/ OnUpdateModelUpdateRaises
    \/ OnUpdatePredictRaises
    \/ RetrainStart
    \/ RetrainFitted
    \/ RetrainFailed
    \/ RetrainFinally

Spec == AppInit /\ [][Next]_vars

\* ----------------------------------------------------------------------
\* Specification of the refit: updates one time unit apart and updates
\* after a gap that closes more coarse buckets than the retrain threshold,
\* and the retrain worker
\* ----------------------------------------------------------------------
RefitGaps == {1, 24}

DeliverRefitUpdate ==
    /\ Receiving
    /\ ob # NoOrderBook
    /\ n_updates < MaxUpdates
    /\ \E gap \in RefitGaps, changes \in SeriesChanges :
        Deliver(L2Update(ob.last_update + gap, changes))

NextRefit ==
    \/ DeliverSnapshot
    \/ OnSnapshot
    \/ NextMessage
    \/ DeliverRefitUpdate
    \/ OnUpdate
    \/ RetrainStart
    \/ RetrainFitted
    \/ RetrainFailed
    \/ RetrainFinally

SpecRefit == AppInit /\ [][NextRefit]_vars

\* ----------------------------------------------------------------------
\* Specification of the forecast errors: one update more than in Spec, so
\* that a prediction is followed by the observation of its bucket, with
\* late updates, and the retrain worker
\* ----------------------------------------------------------------------
ErrorGaps == {-6, 1, 20}

DeliverErrorUpdate ==
    /\ Receiving
    /\ ob # NoOrderBook
    /\ n_updates < MaxUpdates + 1
    /\ \E gap \in ErrorGaps, changes \in SeriesChanges :
        /\ ob.last_update + gap >= 0
        /\ Deliver(L2Update(ob.last_update + gap, changes))

NextErrors ==
    \/ DeliverSnapshot
    \/ OnSnapshot
    \/ NextMessage
    \/ DeliverErrorUpdate
    \/ OnUpdate
    \/ RetrainStart
    \/ RetrainFitted
    \/ RetrainFailed
    \/ RetrainFinally

SpecErrors == AppInit /\ [][NextErrors]_vars

\* ----------------------------------------------------------------------
\* Specification of the parsing: a snapshot, then updates one time unit
\* apart whose time, prices and quantities may be texts that do not parse
\* ----------------------------------------------------------------------
\* the prices 1 and the quantities 0, 1, and a text that does not parse
ParseChanges == Sides \X {1, NotANumber} \X {0, 1, NotANumber}
ParseChangeLists == UNION {[1..k -> ParseChanges] : k \in 0..MaxChanges}

DeliverParseUpdate ==
    /\ Receiving
    /\ ob # NoOrderBook
    /\ n_updates < MaxUpdates
    /\ \E time \in {ob.last_update + 1, NotATime}, changes \in ParseChangeLists :
        Deliver(L2Update(time, changes))

NextParse ==
    \/ DeliverSnapshot
    \/ OnSnapshot
    \/ NextMessage
    \/ DeliverParseUpdate
    \/ OnUpdate
    \/ OnUpdateParseRaises

SpecParse == AppInit /\ [][NextParse]_vars

\* ----------------------------------------------------------------------
\* Specification of the reset: a snapshot, updates, a second snapshot that
\* replaces the engine while its retrain worker may be running, and the
\* updates after it
\* ----------------------------------------------------------------------
ResetGaps == {1, 20}

\* the snapshot after a reconnect
DeliverResetSnapshot ==
    /\ Receiving
    /\ ob # NoOrderBook
    /\ replaced = NoOrderBook
    /\ \E time \in SnapshotTimes, bids \in SnapshotBids, asks \in SnapshotAsks :
        Deliver(Snapshot(time, bids, asks))

DeliverResetUpdate ==
    /\ Receiving
    /\ ob # NoOrderBook
    /\ n_updates < MaxUpdates
    /\ \E gap \in ResetGaps, changes \in SeriesChanges :
        Deliver(L2Update(ob.last_update + gap, changes))

NextReset ==
    \/ DeliverSnapshot
    \/ DeliverResetSnapshot
    \/ OnSnapshot
    \/ NextMessage
    \/ DeliverResetUpdate
    \/ OnUpdate
    \/ RetrainStart
    \/ RetrainFitted
    \/ RetrainFailed
    \/ RetrainFinally
    \/ ReplacedRetrainStart
    \/ ReplacedRetrainFitted
    \/ ReplacedRetrainFailed
    \/ ReplacedRetrainFinally

SpecReset == AppInit /\ [][NextReset]_vars

\* ----------------------------------------------------------------------
\* Specification of the teardown: a snapshot, updates, the retrain worker,
\* and the teardown of the application at any time between two messages
\* ----------------------------------------------------------------------
TeardownGaps == {1, 20}

DeliverTeardownUpdate ==
    /\ Receiving
    /\ ob # NoOrderBook
    /\ n_updates < MaxUpdates
    /\ \E gap \in TeardownGaps, changes \in SeriesChanges :
        Deliver(L2Update(ob.last_update + gap, changes))

NextTeardown ==
    \/ DeliverSnapshot
    \/ OnSnapshot
    \/ NextMessage
    \/ DeliverTeardownUpdate
    \/ OnUpdate
    \/ RetrainStart
    \/ RetrainFitted
    \/ RetrainFailed
    \/ RetrainFinally
    \/ AppExit
    \/ EngineExit
    \/ JoinReturns
    \/ MainThreadEnds
    \/ ProcessExits
    \/ Tick

SpecTeardown == AppInit /\ [][NextTeardown]_vars

\* ----------------------------------------------------------------------
\* Specification of the sides: a snapshot, then one update whose changes
\* name any side: the two sides of the feed and one the feed does not have
\* ----------------------------------------------------------------------
\* side is any str for __insert_record and __get_book
FeedSides == Sides \cup {"hold"}
SideChanges == FeedSides \X Prices \X Quantities
SideChangeLists == UNION {[1..k -> SideChanges] : k \in 0..MaxChanges}

DeliverSideUpdate ==
    /\ Receiving
    /\ ob # NoOrderBook
    /\ n_updates = 0
    /\ \E changes \in SideChangeLists : Deliver(L2Update(ob.last_update + 1, changes))

NextSides ==
    \/ DeliverSnapshot
    \/ OnSnapshot
    \/ NextMessage
    \/ DeliverSideUpdate
    \/ OnUpdate

SpecSides == AppInit /\ [][NextSides]_vars

\* ----------------------------------------------------------------------
\* Specification of the cache: messages of every type in any order, the
\* subscriptions message first if at all, one snapshot, updates before and
\* after the snapshot
\* ----------------------------------------------------------------------
CacheSnapshot == Snapshot(BookTimes.snapshot, <<>>, <<<<2, 1>>>>)
CacheUpdate == L2Update(BookTimes.l2update, <<>>)
Subscriptions == Message("subscriptions", 0, <<>>, <<>>, <<>>)
Unexpected == Message("heartbeat", 0, <<>>, <<>>, <<>>)

DeliverCacheMessage ==
    /\ Receiving
    /\ messages_processed < MaxMessages
    /\ \/ messages_processed = 0 /\ Deliver(Subscriptions)
       \/ ob = NoOrderBook /\ Deliver(CacheSnapshot)
       \/ Deliver(CacheUpdate)
       \/ Deliver(Unexpected)

NextCache ==
    \/ DeliverCacheMessage
    \/ OnSubscriptions
    \/ OnSnapshot
    \/ OnUpdate
    \/ OnUpdateNoOrderBook
    \/ OnUnexpected
    \/ NextMessage

SpecCache == AppInit /\ [][NextCache]_vars

\* ----------------------------------------------------------------------
\* Specification of the reader: the main thread calls get_stats and
\* take_snapshot and writes to the books it was given, while the websocket
\* thread handles a snapshot and one update; update() is taken in two
\* steps, the books (order_book.py:95-98) and the rest (99-105)
\* ----------------------------------------------------------------------
ReaderChangeLists == {<<>>} \cup {<<c>> : c \in Changes}

DeliverReaderUpdate ==
    /\ Receiving
    /\ ob # NoOrderBook
    /\ n_updates = 0
    /\ \E changes \in ReaderChangeLists : Deliver(L2Update(ob.last_update + 1, changes))

\* __on_message for an l2update, up to the end of the loop over the changes
UpdateWritesBooks ==
    /\ pending
    /\ msg.type = "l2update"
    /\ ob # NoOrderBook
    /\ ~in_update
    /\ cache' = Append(cache, cache_file_name(messages_processed, msg.type))
    /\ ob' = update_books(ob, msg)
    /\ in_update' = TRUE
    /\ UNCHANGED <<msg, pending, n_updates, outcome, messages_processed, reader, replaced, teardown>>

\* __on_message for an l2update, from __update_data_structures on
UpdateFinishes ==
    /\ pending
    /\ in_update
    /\ ob' = update_after_books(ob)
    /\ in_update' = FALSE
    /\ pending' = FALSE
    /\ n_updates' = n_updates + 1
    /\ outcome' = "returned"
    /\ messages_processed' = messages_processed + 1
    /\ UNCHANGED <<msg, cache, reader, replaced, teardown>>

\* the reader may make one more call
ReaderMayCall == ob # NoOrderBook /\ reader.calls < MaxReaderCalls

\* the reader calls take_snapshot()
ReaderTakesSnapshot ==
    /\ ReaderMayCall
    /\ reader' = [reader EXCEPT !.books = take_snapshot(ob), !.calls = @ + 1]
    /\ UNCHANGED <<ob, msg, pending, n_updates, outcome, cache, messages_processed, in_update, replaced, teardown>>

\* the reader calls get_stats(), which returns the stats or raises
ReaderGetsStats ==
    /\ ReaderMayCall
    /\ reader' = [reader EXCEPT
                    !.stats = IF get_stats_raises(ob) THEN <<>> ELSE <<get_stats(ob)>>,
                    !.raised = get_stats_raises(ob),
                    !.calls = @ + 1]
    /\ UNCHANGED <<ob, msg, pending, n_updates, outcome, cache, messages_processed, in_update, replaced, teardown>>

\* what the caller writes to a book it was given: book[price] = quantity,
\* and del book[price] for the quantity 0
CallerPrices == {1, 3}
CallerQuantities == {0, 7}

\* the caller inserts, overwrites or deletes an entry of a returned book
CallerWrites ==
    /\ ReaderMayCall
    /\ reader.books # <<>>
    /\ \E i \in 1..2, price \in CallerPrices, quantity \in CallerQuantities :
        LET side == IF i = 1 THEN "buy" ELSE "sell"
            object == reader.books[i]
            items == items_of(object, get_book(ob, side))
            written == IF quantity > 0
                       THEN setitem(side, items, float(price), float(quantity))
                       ELSE delitem(items, float(price))
        IN  /\ quantity = 0 => contains(items, float(price))
            /\ IF object.is_engine_book
               THEN /\ ob' = IF i = 1 THEN [ob EXCEPT !.bids = written]
                                      ELSE [ob EXCEPT !.asks = written]
                    /\ reader' = [reader EXCEPT !.calls = @ + 1]
               ELSE /\ ob' = ob
                    /\ reader' = [reader EXCEPT !.books[i].items = written, !.calls = @ + 1]
    /\ UNCHANGED <<msg, pending, n_updates, outcome, cache, messages_processed, in_update, replaced, teardown>>

NextReader ==
    \/ DeliverSnapshot
    \/ OnSnapshot
    \/ NextMessage
    \/ DeliverReaderUpdate
    \/ UpdateWritesBooks
    \/ UpdateFinishes
    \/ ReaderTakesSnapshot
    \/ ReaderGetsStats
    \/ CallerWrites

SpecReader == AppInit /\ [][NextReader]_vars

\* ----------------------------------------------------------------------
\* Properties
\* ----------------------------------------------------------------------
Constructed == ob # NoOrderBook

\* the last __on_message call handled an l2update / a snapshot
HandledUpdate == ~pending /\ msg.type = "l2update"
HandledSnapshot == ~pending /\ msg.type = "snapshot"

Items(book) == {book[i] : i \in 1..Len(book)}

\* C1: after the constructor and after any update, every entry stored in
\* the bids book and in the asks book has a quantity > 0
C1_StoredQuantitiesArePositive ==
    \A side \in Sides : \A it \in Items(get_book(ob, side)) : FGt(it[2], float(0))

\* an update with a zero or negative quantity for a price has been handled,
\* and the other side of the book still holds entries
C1_Witness ==
    /\ HandledUpdate
    /\ \E i \in 1..Len(msg.changes) :
        /\ msg.changes[i][3] <= 0
        /\ msg.changes[i][1] = "buy"
        /\ ~contains(ob.bids, float(msg.changes[i][2]))
    /\ \E i \in 1..Len(msg.changes) : msg.changes[i][3] < 0
    /\ Len(ob.asks) = 2

\* C2: the best bid of get_stats() is the stored bid with the highest price
\* and the best ask is the stored ask with the lowest price
C2_BestIsExtremeStoredPrice ==
    Constructed =>
        /\ ob.bids # <<>> =>
            /\ \E it \in Items(ob.bids) :
                get_stats(ob).current_highest_bid = Order(it[1], it[2])
            /\ \A it \in Items(ob.bids) :
                ~FGt(it[1], get_stats(ob).current_highest_bid.price_level)
        /\ ob.asks # <<>> =>
            /\ \E it \in Items(ob.asks) :
                get_stats(ob).current_lowest_ask = Order(it[1], it[2])
            /\ \A it \in Items(ob.asks) :
                ~FLt(it[1], get_stats(ob).current_lowest_ask.price_level)

\* an update that changed the books has been handled and both sides hold
\* two price levels
C2_Witness ==
    /\ HandledUpdate
    /\ Len(msg.changes) = 2
    /\ Len(ob.bids) = 2
    /\ Len(ob.asks) = 2

\* the reference book: a set of <<price, quantity>> with one entry per price
RefInsert(book, price, quantity) ==
    IF quantity > 0
    THEN {it \in book : it[1] # price} \cup {<<price, quantity>>}
    ELSE {it \in book : it[1] # price}

RECURSIVE RefApply(_, _, _)
RefApply(book, side, changes) ==
    IF changes = <<>> THEN book
    ELSE RefApply(IF changes[1][1] = side
                  THEN RefInsert(book, changes[1][2], changes[1][3]) ELSE book,
                  side, Tail(changes))

\* the entries of one side of a snapshot as changes of that side
AsChanges(side, entries) == [i \in 1..Len(entries) |-> <<side, entries[i][1], entries[i][2]>>]

\* a book of take_snapshot() equals the reference book: the same mapping
EqualsRef(book, ref) ==
    /\ Len(book) = Cardinality(ref)
    /\ Items(book) = {<<float(it[1]), float(it[2])>> : it \in ref}

\* the reference book a book of the engine stands for
AsRef(book) == {<<it[1].n, it[2].n>> : it \in Items(book)}

\* C3: the books of take_snapshot() equal the reference books built by
\* insert(price, qty) over the snapshot entries and then over the changes of
\* every update in arrival order
C3_SnapshotEqualsReference ==
    [][(pending /\ ~pending') =>
        IF msg.type = "snapshot"
        THEN /\ EqualsRef(take_snapshot(ob')[1].items, RefApply({}, "buy", AsChanges("buy", msg.bids)))
             /\ EqualsRef(take_snapshot(ob')[2].items, RefApply({}, "sell", AsChanges("sell", msg.asks)))
        ELSE /\ EqualsRef(take_snapshot(ob')[1].items,
                          RefApply(AsRef(take_snapshot(ob)[1].items), "buy", msg.changes))
             /\ EqualsRef(take_snapshot(ob')[2].items,
                          RefApply(AsRef(take_snapshot(ob)[2].items), "sell", msg.changes))]_vars

\* an update with two changes of the same bid price has been handled: the
\* first one deletes or sets another quantity, the last one is in the book
C3_Witness ==
    /\ HandledUpdate
    /\ Len(msg.changes) = 2
    /\ msg.changes[1][1] = "buy" /\ msg.changes[2][1] = "buy"
    /\ msg.changes[1][2] = msg.changes[2][2]
    /\ msg.changes[1][3] # msg.changes[2][3]
    /\ msg.changes[2][3] > 0
    /\ <<float(msg.changes[2][2]), float(msg.changes[2][3])>> \in Items(ob.bids)
    /\ Len(ob.bids) = 2

\* C4: once max_ask_bid_diff.diff has a defined value it never becomes
\* smaller and never becomes NaN again
C4_MaxDiffNeverDecreases ==
    [][(Constructed /\ ~isnan(diff(ob.max_ask_bid_diff))) =>
        /\ ~isnan(diff(ob'.max_ask_bid_diff))
        /\ ~FLt(diff(ob'.max_ask_bid_diff), diff(ob.max_ask_bid_diff))]_vars

\* an update has been handled after which the spread of the books is
\* smaller than the recorded maximum
C4_Witness ==
    /\ HandledUpdate
    /\ outcome = "returned"
    /\ FLt(diff(calc_ask_bid_diff(ob)), diff(ob.max_ask_bid_diff))

\* C5: an update replaces max_ask_bid_diff only when its resulting spread is
\* strictly greater than the recorded one or the recorded diff is NaN; an
\* equal, smaller or undefined spread leaves it unchanged
C5_MaxDiffReplacedOnlyByGreater ==
    [][(pending /\ ~pending' /\ msg.type = "l2update"
            /\ ob'.max_ask_bid_diff # ob.max_ask_bid_diff) =>
        \/ isnan(diff(ob.max_ask_bid_diff))
        \/ FGt(diff(calc_ask_bid_diff(ob')), diff(ob.max_ask_bid_diff))]_vars

\* an update at a later time has been handled whose spread equals the
\* recorded maximum, and the earlier observation is still the recorded one
C5_Witness ==
    /\ HandledUpdate
    /\ outcome = "returned"
    /\ FEq(diff(calc_ask_bid_diff(ob)), diff(ob.max_ask_bid_diff))
    /\ ob.max_ask_bid_diff.observed_at < ob.last_update

\* C6: for every reachable engine and every update u, update(u) twice in a
\* row leaves the engine in the same state as update(u) once
C6_UpdateTwiceIsUpdateOnce ==
    (pending /\ msg.type = "l2update") =>
        update(update(ob, msg), msg) = update(ob, msg)

\* C7: after any update, last_update is >= its value before the call
C7_LastUpdateNeverRegresses ==
    [][Constructed => ob'.last_update >= ob.last_update]_vars

\* C8: the index of MidPriceSeries is strictly increasing and every
\* timestamp in it is a multiple of the mid-price sample interval
C8_MidPricesOnGridAndIncreasing ==
    \A i \in 1..Len(ob.mid_prices) :
        /\ ob.mid_prices[i].ts % mid_price_sample_interval = 0
        /\ i > 1 => ob.mid_prices[i - 1].ts < ob.mid_prices[i].ts

\* an update whose time is off the grid and earlier than the time of the
\* message before it has been handled, and the series holds several samples
C8_Witness ==
    /\ HandledUpdate
    /\ msg.time % mid_price_sample_interval # 0
    /\ ob.max_ask_bid_diff.observed_at > msg.time
    /\ Len(ob.mid_prices) >= 3

\* C9: after the constructor and after every update, no entry of
\* MidPriceSeries and no row of ForecastTable is older than
\* last_update - max_window - mid_price_sample_interval
C9_NothingOlderThanRetention ==
    (Constructed /\ ~pending) =>
        /\ \A i \in 1..Len(ob.mid_prices) :
            ob.mid_prices[i].ts >= ob.last_update - max_window - mid_price_sample_interval
        /\ \A i \in 1..Len(ob.forecast) :
            ob.forecast[i].ts >= ob.last_update - max_window - mid_price_sample_interval

\* C10: for an engine built from a snapshot with both sides non-empty and
\* no update applied, get_stats() returns the best bid and ask of the books,
\* max_ask_bid_diff = (best bid price, best ask price, snapshot time), the
\* mid-price (best bid price + best ask price) / 2 for every window, and NaN
\* for the forecast and for every forecast error
C10_StatsOfSnapshot ==
    (HandledSnapshot /\ ob.bids # <<>> /\ ob.asks # <<>>) =>
        LET stats == get_stats(ob)
            best_bid == CHOOSE it \in Items(ob.bids) :
                            \A o \in Items(ob.bids) : ~FGt(o[1], it[1])
            best_ask == CHOOSE it \in Items(ob.asks) :
                            \A o \in Items(ob.asks) : ~FLt(o[1], it[1])
        IN  /\ ~get_stats_raises(ob)
            /\ stats.current_highest_bid = Order(best_bid[1], best_bid[2])
            /\ stats.current_lowest_ask = Order(best_ask[1], best_ask[2])
            /\ stats.max_ask_bid_diff = BidAskDiff(best_bid[1], best_ask[1], msg.time)
            /\ \A w \in 1..Len(aggregation_windows) :
                /\ ~isnan(stats.mid_prices[w])
                /\ stats.mid_prices[w].n * 2 = (best_bid[1].n + best_ask[1].n) * stats.mid_prices[w].d
                /\ isnan(stats.forecast_errors[w])
            /\ isnan(stats.forecasted_mid_price)

\* an engine has been built from a snapshot with two bid and two ask levels,
\* the bids listed in ascending order of price, and no update was applied
C10_Witness ==
    /\ HandledSnapshot
    /\ n_updates = 0
    /\ Len(ob.bids) = 2
    /\ Len(ob.asks) = 2
    /\ msg.bids[1][1] < msg.bids[2][1]
    /\ ob.bids[1][1] # ob.asks[1][1]

\* C11: whenever a side of the book is empty get_stats() returns normally
\* with Order(NaN, NaN) for that side; an engine built from an empty snapshot
\* has max_ask_bid_diff = (NaN, NaN, snapshot time) and NaN for every
\* mid-price mean and forecast error
C11_EmptySideIsNotAnError ==
    (Constructed /\ ~pending) =>
        /\ ob.bids = <<>> =>
            /\ ~get_stats_raises(ob)
            /\ get_stats(ob).current_highest_bid = Order(NaN, NaN)
        /\ ob.asks = <<>> =>
            /\ ~get_stats_raises(ob)
            /\ get_stats(ob).current_lowest_ask = Order(NaN, NaN)
        /\ (HandledSnapshot /\ ob.bids = <<>> /\ ob.asks = <<>>) =>
            /\ get_stats(ob).max_ask_bid_diff = BidAskDiff(NaN, NaN, msg.time)
            /\ \A w \in 1..Len(aggregation_windows) :
                /\ isnan(get_stats(ob).mid_prices[w])
                /\ isnan(get_stats(ob).forecast_errors[w])

\* the defined samples of MidPriceSeries with a tick in [last_tick - w, last_tick]
WindowSamples(w) ==
    {i \in 1..Len(ob.mid_prices) :
        /\ ob.mid_prices[i].ts >= Last(ob.mid_prices).ts - w
        /\ ob.mid_prices[i].ts <= Last(ob.mid_prices).ts
        /\ ~isnan(ob.mid_prices[i].v)}

\* twice the sum of the samples S of MidPriceSeries (a mid-price is a
\* multiple of 1/2)
RECURSIVE TwiceSum(_)
TwiceSum(S) ==
    IF S = {} THEN 0
    ELSE LET i == CHOOSE x \in S : TRUE
         IN  ob.mid_prices[i].v.n * (2 \div ob.mid_prices[i].v.d) + TwiceSum(S \ {i})

\* C12: for every window w, get_stats().mid_prices[w] is the arithmetic mean
\* of the defined samples with a tick in [last_tick - w, last_tick], every
\* tick counted once; NaN samples (a side was empty) do not contribute
C12_WindowMeanOfDefinedSamples ==
    (Constructed /\ ~pending /\ ~get_stats_raises(ob)) =>
        \A k \in 1..Len(aggregation_windows) :
            LET S == WindowSamples(aggregation_windows[k])
                m == get_stats(ob).mid_prices[k]
            IN  IF S = {} THEN isnan(m)
                ELSE /\ ~isnan(m)
                     /\ m.n * 2 * Cardinality(S) = TwiceSum(S) * m.d

\* an update that emptied the bids has been handled: the last samples are
\* NaN, earlier samples of the smallest window are defined, and the largest
\* window holds more samples than the smallest
C12_Witness ==
    /\ HandledUpdate
    /\ outcome = "returned"
    /\ ob.bids = <<>>
    /\ isnan(Last(ob.mid_prices).v)
    /\ WindowSamples(aggregation_windows[1]) # {}
    /\ Len(SliceFrom(ob.mid_prices, Last(ob.mid_prices).ts - max_window))
            > Len(SliceFrom(ob.mid_prices, Last(ob.mid_prices).ts - aggregation_windows[1]))



\* the items of the two books the reader was given
ReturnedItems(r, engine) ==
    <<items_of(r.books[1], engine.bids), items_of(r.books[2], engine.asks)>>

\* C13: the books returned by take_snapshot() are detached from the engine:
\* a write of the caller to a returned book changes neither the engine's
\* bids and asks nor what get_stats() and take_snapshot() return, and a
\* step of the engine changes no book returned before
C13_SnapshotBooksAreDetached ==
    [][/\ CallerWrites =>
            /\ ob'.bids = ob.bids
            /\ ob'.asks = ob.asks
            /\ take_snapshot(ob') = take_snapshot(ob)
            /\ get_stats_raises(ob') = get_stats_raises(ob)
            /\ ~get_stats_raises(ob) => get_stats(ob') = get_stats(ob)
       /\ (reader.books # <<>> /\ reader'.books = reader.books) =>
            ReturnedItems(reader', ob') = ReturnedItems(reader, ob)]_vars

\* the caller has written the level 3 to the bids it was given, the update
\* handled after the call of take_snapshot() has changed the engine's bids,
\* and neither book has the change of the other
C13_Witness ==
    /\ HandledUpdate
    /\ reader.books # <<>>
    /\ contains(reader.books[1].items, float(3))
    /\ ~contains(ob.bids, float(3))
    /\ contains(ob.bids, float(2))
    /\ ~contains(reader.books[1].items, float(2))

\* the changes of a list whose side is "buy" or "sell"
KnownSideChanges(changes) == SelectSeq(changes, LAMBDA c : c[1] \in Sides)

\* C14: an update with a change whose side is neither "buy" nor "sell" is
\* raised to the caller, and that change is applied to neither book: the
\* books are those of the "buy" and "sell" changes applied before the error
C14_UnknownSideIsRaised ==
    [][(pending /\ ~pending' /\ msg.type = "l2update"
            /\ \E i \in 1..Len(msg.changes) : msg.changes[i][1] \notin Sides)
          => /\ outcome' = "raised"
             /\ \E k \in 0..Len(msg.changes) :
                    LET applied == insert_changes(ob, KnownSideChanges(SubSeq(msg.changes, 1, k)))
                    IN  /\ ob'.bids = applied.bids
                        /\ ob'.asks = applied.asks]_vars

\* C15: no failure of the forecaster makes ingestion fail: update() returns
\* normally and leaves the books, last_update, max_ask_bid_diff and
\* MidPriceSeries as an update without the failure does
C15_ForecasterFailureKeepsIngest ==
    [][(pending /\ ~pending' /\ msg.type = "l2update") =>
        /\ outcome' = "returned"
        /\ ob'.bids = update(ob, msg).bids
        /\ ob'.asks = update(ob, msg).asks
        /\ ob'.last_update = update(ob, msg).last_update
        /\ ob'.max_ask_bid_diff = update(ob, msg).max_ask_bid_diff
        /\ ob'.mid_prices = update(ob, msg).mid_prices]_vars



\* the spread of the best bid and ask of the stats is not larger than the
\* largest spread of the stats: so it is after the constructor and after
\* every update() that returns
SpreadWithinMax(stats) ==
    LET spread == FSub(stats.current_lowest_ask.price_level,
                       stats.current_highest_bid.price_level)
    IN  \/ isnan(spread)
        \/ /\ ~isnan(diff(stats.max_ask_bid_diff))
           /\ ~FGt(spread, diff(stats.max_ask_bid_diff))

\* C16: the stats a reader was given are those of a state before or after
\* an update, never those of books that contain the changes of an update
\* that max_ask_bid_diff does not reflect yet
C16_ReaderSeesConsistentState ==
    reader.stats # <<>> => SpreadWithinMax(reader.stats[1])

\* C17 as stated: every handled message, of any type and whether or not its
\* processing raises, writes exactly one new cache file, and the name of
\* the file sorts after the names of all the files written before it
C17_CacheOrderIsArrivalOrder ==
    [][(pending /\ ~pending') =>
        /\ Len(cache') = Len(cache) + 1
        /\ SubSeq(cache', 1, Len(cache)) = cache
        /\ \A i \in 1..Len(cache) :
            /\ cache[i] # Last(cache')
            /\ StrLess(cache[i], Last(cache'))]_vars

\* C17 amended: every handled message writes exactly one new cache file;
\* its name sorts after the names of all the files written before it as
\* long as no more than 10^FILE_NAME_PREFIX_LENGTH messages have arrived
C17_CacheOrderUpToPrefixLength ==
    [][(pending /\ ~pending') =>
        /\ Len(cache') = Len(cache) + 1
        /\ SubSeq(cache', 1, Len(cache)) = cache
        /\ \A i \in 1..Len(cache) :
            /\ cache[i] # Last(cache')
            /\ Len(cache') <= 10 ^ FILE_NAME_PREFIX_LENGTH
                  => StrLess(cache[i], Last(cache'))]_vars

\* files of a snapshot, of updates that returned and that raised, and of an
\* unexpected message have been written, the last one the file number 9
C17_Witness ==
    /\ ~pending
    /\ msg.type = "l2update"
    /\ Len(cache) = 10 ^ FILE_NAME_PREFIX_LENGTH
    /\ cache[1] = cache_file_name(0, "l2update")
    /\ \E i, j \in 1..Len(cache) :
        /\ cache[i] = cache_file_name(i - 1, "snapshot")
        /\ cache[j] = cache_file_name(j - 1, "heartbeat")

\* C18: every refit that starts releases the retrain lock on every path:
\* a worker that has ended has released the lock
C18_EndedRefitReleasedLock ==
    ob.retrain_model_thread.pc \in {"finished", "died"} => ~ob.model_retrain_lock

\* C19: in every state reached by a snapshot and well-formed updates,
\* get_stats() returns without raising: MidPriceSeries is never empty and a
\* non-empty ForecastTable has a row at or before the last mid-price tick
C19_GetStatsNeverRaises ==
    (Constructed /\ ~pending) => ~get_stats_raises(ob)

\* C20: the training data of a refit is fixed when the worker is dispatched:
\* as long as the dispatched worker has not begun to fit, no update() of the
\* ingest thread changes the data the worker is going to train on
C20_TrainDataFixedAtDispatch ==
    [][(ob.retrain_model_thread.pc = "started" /\ ob'.retrain_model_thread.pc = "started")
          => retrain_argument(ob') = retrain_argument(ob)]_vars

\* C21: at most one refit is in flight: an update handled while the retrain
\* lock is held leaves the worker and the lock as they are, and a worker is
\* started only by a step that finds the lock free
C21_OneRefitInFlight ==
    [][/\ (pending /\ ~pending' /\ ob.model_retrain_lock) =>
            /\ ob'.retrain_model_thread = ob.retrain_model_thread
            /\ ob'.model_retrain_lock
       /\ (ob'.retrain_model_thread.pc = "started" /\ ob.retrain_model_thread.pc # "started") =>
            ~ob.model_retrain_lock]_vars

\* an update was handled while a worker was fitting and held the lock, with
\* updates_since_refit at the threshold
C21_Witness ==
    /\ HandledUpdate
    /\ ob.model_retrain_lock
    /\ ob.retrain_model_thread.pc = "auto_arima"
    /\ ob.forecast # <<>>
    /\ ob.n_model_updates >= ob.n_observation_to_retrain_after

\* the coarse buckets that are closed, within retention, and whose fine
\* samples are all retained
ClosedBuckets ==
    {b \in 0..Last(ob.mid_prices).ts :
        /\ b % forecast_sample_interval = 0
        /\ b + forecast_sample_interval <= Last(ob.mid_prices).ts
        /\ b >= ob.mid_prices[1].ts
        /\ b >= ob.last_update - max_window - forecast_sample_interval}

\* C22: after an update is processed every closed coarse bucket within
\* retention has a ForecastTable row whose mid_price is the mean of the
\* MidPriceSeries samples of the bucket
C22_ClosedBucketsAreObservations ==
    (HandledUpdate /\ outcome = "returned") =>
        \A b \in ClosedBuckets :
            /\ b \in Index(ob.forecast)
            /\ RowAt(ob.forecast, b).mid_price =
                mean(SliceBetween(ob.mid_prices, b, b + forecast_sample_interval - 1))

\* the mid price of the books of the engine
MidPrice(engine) ==
    FDivInt(FAdd(calc_ask_bid_diff(engine).highest_bid_price_level,
                 calc_ask_bid_diff(engine).lowest_ask_price_level), 2)

\* C23: the observation of a handled snapshot or update of time t is stored
\* in MidPriceSeries at the first grid tick at or after t
C23_ObservationAtFirstTickNotBefore ==
    (Constructed /\ ~pending /\ outcome = "returned" /\ msg.type \in {"snapshot", "l2update"}) =>
        /\ ob.mid_prices # <<>>
        /\ Last(ob.mid_prices) =
            Point(Ceil(msg.time, mid_price_sample_interval), MidPrice(ob))

\* a worker has been started and has not ended
RefitInFlight(engine) ==
    engine.retrain_model_thread.pc \in {"started", "auto_arima", "finally"}

C25_RefitOutcome ==
    [][/\ RetrainFitted =>
            /\ ob'.forecast_model.fitted
            /\ ob'.n_model_updates = 0
            /\ ob'.n_observation_to_retrain_after = ob.n_observation_to_retrain_after
       /\ RetrainFailed =>
            /\ ob'.forecast_model = ob.forecast_model
            /\ ob'.n_model_updates = ob.n_model_updates
            /\ ob'.n_observation_to_retrain_after =
                ob.n_observation_to_retrain_after + MID_PRICE_SEASONALITY_M
            /\ ob'.n_observation_to_retrain_after - ob'.n_model_updates
                >= MID_PRICE_SEASONALITY_M]_vars

\* the timestamps of the rows of a frame that are used_in_training
UsedInTraining(frame) ==
    {frame[i].ts : i \in {j \in 1..Len(frame) : frame[j].used_in_training = "True"}}

\* C26: an update processed while no refit is in flight and
\* updates_since_refit is below the threshold counts exactly the rows that
\* are not used_in_training and marks them; and a row becomes
\* used_in_training only in such an update, which counted it
C26_OnlineUpdateMarksWhatItCounts ==
    [][(pending /\ ~pending' /\ msg.type = "l2update" /\ ob # NoOrderBook
            /\ outcome' = "returned") =>
        LET at_call == at_model_update_call(ob, msg)
            fed == not_used_in_training(at_call.forecast)
            online == /\ ~RefitInFlight(at_call)
                      /\ at_call.n_model_updates < at_call.n_observation_to_retrain_after
            marked == UsedInTraining(ob'.forecast) \cap Index(fed)
        IN  /\ online =>
                /\ ob'.n_model_updates = ob.n_model_updates + Len(fed)
                /\ Index(fed) \cap Index(ob'.forecast) \subseteq marked
            /\ marked # {} =>
                /\ online
                /\ ob'.n_model_updates = ob.n_model_updates + Len(fed)]_vars

\* C27: an update of time t leaves every retained MidPriceSeries sample
\* before t as it was and replaces the samples at or after t: after the
\* update the only sample at or after t is the one of the new observation
C27_LateUpdateReplacesFromItsTime ==
    [][(pending /\ ~pending' /\ msg.type = "l2update" /\ ob # NoOrderBook
            /\ outcome' = "returned") =>
        /\ \A i \in 1..Len(ob'.mid_prices) :
            ob'.mid_prices[i].ts >= msg.time => i = Len(ob'.mid_prices)
        /\ \A i \in 1..Len(ob.mid_prices) :
            (/\ ob.mid_prices[i].ts < msg.time
             /\ ob.mid_prices[i].ts >= ob'.mid_prices[1].ts) =>
                \E j \in 1..Len(ob'.mid_prices) : ob'.mid_prices[j] = ob.mid_prices[i]
        /\ Last(ob'.mid_prices).v = MidPrice(ob')]_vars

\* a late update has cut MidPriceSeries back to its own time: rows of the
\* ForecastTable, made of samples that were removed, lie after the last
\* sample, and samples before the time of the update are retained
C27_Witness ==
    /\ HandledUpdate
    /\ outcome = "returned"
    /\ Len(ob.mid_prices) >= 2
    /\ ob.mid_prices[1].ts < msg.time
    /\ ob.forecast # <<>>
    /\ ~ob.forecast_model.fitted
    /\ Last(ob.forecast).ts > Last(ob.mid_prices).ts

\* the samples of the engine before the time of the message
SamplesBefore(engine, time) == SelectSeq(engine.mid_prices, LAMBDA p : p.ts < time)

\* C28: MidPriceSeries has no gaps: consecutive samples are one sample
\* interval apart, and the ticks an update adds between the last retained
\* sample and the tick of its own observation carry the mid price of that
\* last sample
C28_NoGapsForwardFilled ==
    [][/\ \A i \in 1..(Len(ob'.mid_prices) - 1) :
            ob'.mid_prices[i + 1].ts = ob'.mid_prices[i].ts + mid_price_sample_interval
       /\ (pending /\ ~pending' /\ msg.type = "l2update" /\ ob # NoOrderBook
                /\ SamplesBefore(ob, msg.time) # <<>>) =>
            \A i \in 1..(Len(ob'.mid_prices) - 1) :
                ob'.mid_prices[i].ts > Last(SamplesBefore(ob, msg.time)).ts =>
                    ob'.mid_prices[i].v = Last(SamplesBefore(ob, msg.time)).v]_vars

\* an update after a gap has changed the mid price: the ticks of the gap
\* carry the earlier mid price, the last tick the new one
C28_Witness ==
    /\ HandledUpdate
    /\ Len(ob.mid_prices) >= 4
    /\ ~isnan(Last(ob.mid_prices).v)
    /\ ~isnan(ob.mid_prices[Len(ob.mid_prices) - 1].v)
    /\ ob.mid_prices[Len(ob.mid_prices) - 1].v # Last(ob.mid_prices).v
    /\ ob.mid_prices[Len(ob.mid_prices) - 2].v = ob.mid_prices[Len(ob.mid_prices) - 1].v

\* C29: forecasted_mid_price is NaN while the ForecastTable is empty or no
\* model has been fitted; after an update processed with a fitted model the
\* table holds the predictions at model_update_time + k *
\* forecast_sample_interval, k = 1..n, its latest row is the one at
\* model_update_time + forecast_window and forecasted_mid_price is the
\* prediction of that row
C29_ForecastedMidPrice ==
    (Constructed /\ ~pending /\ ~get_stats_raises(ob)) =>
        /\ (ob.forecast = <<>> \/ ~ob.forecast_model.fitted) =>
                isnan(get_stats(ob).forecasted_mid_price)
        /\ (HandledUpdate /\ outcome = "returned" /\ ob.forecast_model.fitted) =>
            /\ \A t \in new_predictions_index(ob) :
                /\ t \in Index(ob.forecast)
                /\ RowAt(ob.forecast, t).forecast_mid_price = ob.forecast_model.level
            /\ ob.forecast # <<>>
            /\ Last(ob.forecast).ts = ob.model_update_time + forecast_window
            /\ get_stats(ob).forecasted_mid_price = ob.forecast_model.level

\* the ForecastTable rows whose mid_price is known
KnownRows(frame) == SelectSeq(frame, LAMBDA row : ~isnan(row.mid_price))

\* the forecast_error column of a frame as a series
ForecastErrors(frame) == [i \in 1..Len(frame) |-> Point(frame[i].ts, frame[i].forecast_error)]

\* C30: for every window w, forecast_errors[w] is the mean of forecast_error
\* over the ForecastTable rows whose mid_price is known and that lie within w
\* of the latest row with a known mid_price; it is NaN for every window when
\* the table is empty
C30_ForecastErrorsAnchoredAtLastKnownRow ==
    (Constructed /\ ~pending /\ ~get_stats_raises(ob)) =>
        \A i \in 1..Len(aggregation_windows) :
            get_stats(ob).forecast_errors[i] =
                IF KnownRows(ob.forecast) = <<>> THEN NaN
                ELSE mean(SliceFrom(ForecastErrors(KnownRows(ob.forecast)),
                                    Last(KnownRows(ob.forecast)).ts - aggregation_windows[i]))

\* C31: an l2update whose time, or a price or quantity of whose changes,
\* does not parse is dropped as a whole: the error is raised to the adapter
\* and last_update, the books, max_ask_bid_diff and the MidPriceSeries are
\* what they were before the message
C31_UnparsedUpdateIsDropped ==
    [][(pending /\ ~pending' /\ msg.type = "l2update" /\ ob # NoOrderBook
            /\ update_raises_parsing(msg)) =>
        /\ outcome' = "raised"
        /\ ob'.last_update = ob.last_update
        /\ ob'.bids = ob.bids
        /\ ob'.asks = ob.asks
        /\ ob'.max_ask_bid_diff = ob.max_ask_bid_diff
        /\ ob'.mid_prices = ob.mid_prices]_vars

\* C32: every snapshot resets the engine: the engine after it is the one
\* the constructor builds from that snapshot alone, an update that returns
\* afterwards yields what update makes of that engine and the message, and
\* the retrain worker of the replaced engine never changes the new one
C32_SnapshotResetsEngine ==
    [][/\ (pending /\ ~pending' /\ msg.type = "snapshot") => ob' = OrderBook(msg)
       /\ (pending /\ ~pending' /\ msg.type = "l2update" /\ outcome' = "returned") =>
            ob' = update(ob, msg)
       /\ (replaced' # replaced /\ ~(pending /\ ~pending')) => ob' = ob]_vars

\* a model was fitted for the replaced engine after the reset, and the new
\* engine, which has none, handled an update
C32_Witness ==
    /\ HandledUpdate
    /\ outcome = "returned"
    /\ replaced # NoOrderBook
    /\ replaced.forecast_model.fitted
    /\ replaced.retrain_model_thread.pc = "finished"
    /\ ~ob.forecast_model.fitted
    /\ ob.retrain_model_thread = NoThread
    /\ ~ob.model_retrain_lock

\* C33: on teardown the engine waits for a retrain worker in flight for at
\* most the timeout and the teardown always terminates: the process is
\* never still running later than THREADS_JOIN_TIMEOUT after the teardown
\* began
C33_TeardownEndsWithinTimeout ==
    teardown.pc # "terminated" => teardown.elapsed <= THREADS_JOIN_TIMEOUT

====
